---- MODULE Spec2Model ----
(***************************************************************************)
(* Bounded-depth DAG engine (core/dag-engine), the Observe/Consume/Watch   *)
(* pipeline (archerion) and the HDIS integration (hdis) of the             *)
(* functor-framework.                                                      *)
(*                                                                         *)
(* Two specifications share the state:                                     *)
(*   Spec      the DAG's own API: add_node, add_edge, traverse with an     *)
(*             arbitrary visitor;                                          *)
(*   SpecHDIS  the API of HDISIntegration, whose dag field is private:     *)
(*             register_archerion and execute_topology.                    *)
(*                                                                         *)
(* Parts of the repository that src/ calls but does not define             *)
(* (NodeId::new, compute_depth, find_roots) and add_edge are modelled      *)
(* from the specification text; each is marked where it is defined.        *)
(***************************************************************************)
EXTENDS Integers, Sequences, FiniteSets, TLC

\* ---------------------------------------------------------------- bounds
\* Number of NodeId::new() calls explored (ids are 0 .. MaxIds-1).
MaxIds == 4

\* Number of edges add_edge may have appended in total.
MaxEdges == 3

\* Number of register_archerion calls explored.
MaxRegs == 3

\* ------------------------------------------------------------ vocabulary
\* Payload values T stored in the nodes.
Payloads == {"a"}

\* The variants of Complexity; src/ names LogN only (design-protocol:36).
Complexities == {"Constant", "LogN", "Linear", "NLogN", "Quadratic", "Exponential"}

\* "No id": the id field of a result that carries none.
None == -1

VARIABLES
    nodes,           \* DAG.nodes: NodeId -> [data, edges]
    depth,           \* the depth compute_depth assigned to each held node
    max_depth,       \* DAG.max_depth
    next_id,         \* the NodeId::new() counter
    result,          \* what the last completed call returned
    hdis,            \* the monitor: registered components, self-repair set
    pc,              \* position of the traverse call in progress ("idle": none)
    roots,           \* traverse: the roots still to be processed
    stack,           \* traverse: the pending-visit stack
    max_stack_size,  \* traverse: the stack limit computed at entry
    visited,         \* the nodes the visitor was invoked on, in order
    stage,           \* the pipeline state of each node in this traversal
    rd2,             \* a second traverse call, made by another holder of &DAG
    impl             \* the Implementation being validated and the call's position

vars == <<nodes, depth, max_depth, next_id, result, hdis,
          pc, roots, stack, max_stack_size, visited, stage, rd2, impl>>

dagVars == <<nodes, depth, max_depth>>
travVars == <<pc, roots, stack, max_stack_size, visited, stage>>

\* ------------------------------------------------------------- helpers
Max(S) == CHOOSE x \in S : \A y \in S : y <= x

Ids == DOMAIN nodes

\* nodes.len()
len == Cardinality(DOMAIN nodes)

\* (n as f64).log2().ceil() as usize: log2(0) is -inf, and the cast of a
\* negative or infinite float to usize saturates, so n = 0 gives 0.
CeilLog2(n) ==
    IF n = 0 THEN 0
    ELSE CHOOSE k \in 0..n : 2^k >= n /\ \A j \in 0..(k-1) : 2^j < n

\* The elements of a sequence.
Range(s) == {s[i] : i \in 1..Len(s)}

\* The ids in S as an ascending sequence.
RECURSIVE Ascending(_)
Ascending(S) ==
    IF S = {} THEN <<>>
    ELSE LET m == CHOOSE x \in S : \A y \in S : x <= y
         IN <<m>> \o Ascending(S \ {m})

\* The children of node p.
Children(p) == Range(nodes[p].edges)

\* The nodes with an edge to c.
Parents(c) == {p \in Ids : c \in Children(p)}

\* S together with everything reachable from S along edges.
RECURSIVE Closure(_)
Closure(S) ==
    LET n == S \cup UNION {Children(p) : p \in S}
    IN IF n = S THEN S ELSE Closure(n)

\* The nodes reachable from x along one or more edges.
Descendants(x) == Closure(Children(x))

\* Number of edges held by the graph.
RECURSIVE SumLen(_)
SumLen(S) ==
    IF S = {} THEN 0
    ELSE LET x == CHOOSE y \in S : TRUE
         IN Len(nodes[x].edges) + SumLen(S \ {x})

EdgeCount == SumLen(Ids)

\* A second reader that is not traversing.
NoReader ==
    [pc |-> "idle", roots |-> <<>>, stack |-> <<>>, max_stack_size |-> 0,
     visited |-> <<>>, val |-> "None"]

\* The unit value Ok(()) of the validate calls.
ValidateOk == [val |-> "Ok", expected |-> "None", actual |-> "None"]

\* No Implementation has been validated yet.
NoImpl ==
    [op |-> "None", pc |-> "idle", complexity |-> "LogN", tokens_ok |-> TRUE,
     hdis_ok |-> TRUE, ran |-> <<>>, ret |-> ValidateOk]

\* ----------------------------------------------------------------- Init
\* DAG::new() and HDISIntegration::new().
Init ==
    /\ nodes = <<>>
    /\ depth = <<>>
    /\ max_depth = 0
    /\ next_id = 0
    /\ result = [op |-> "new", val |-> "Ok", id |-> None]
    /\ hdis = [components |-> {}, self_repair |-> {}]
    /\ pc = "idle"
    /\ roots = <<>>
    /\ stack = <<>>
    /\ max_stack_size = 0
    /\ visited = <<>>
    /\ stage = <<>>
    /\ rd2 = NoReader
    /\ impl = NoImpl

\* Mutant of exclusive: the mutations take a shared borrow.
shared_borrow == TRUE

\* add_node, add_edge and register_archerion take &mut self (mod.rs:21,
\* hdis:21): the borrow is exclusive, so no traverse call, which holds
\* &self (mod.rs:36), is in progress.
exclusive == pc = "idle" /\ rd2.pc = "idle"

\* The locals of a finished traverse call are gone and its visitor log is
\* closed once another call is made: visited and stage describe the latest
\* traverse call only.
no_traversal ==
    /\ pc' = "idle"
    /\ roots' = <<>>
    /\ stack' = <<>>
    /\ max_stack_size' = 0
    /\ visited' = <<>>
    /\ stage' = <<>>
    /\ rd2' = NoReader

\* ------------------------------------------------------------ BoundedDAG
\* NodeId::new() (mod.rs:22): a fresh id from a process-wide counter.  The
\* call precedes the depth check, so a rejected insertion uses up an id too.
NodeId_new == next_id

\* compute_depth(&id) (mod.rs:23) for the candidate of add_node: 0 for a
\* node that will be a root, else 1 + the largest depth among the nodes that
\* will reference it as a child (spec 4.1).  The intended parents are an
\* input of the call.
compute_depth(parents) ==
    IF parents = {} THEN 0
    ELSE 1 + Max({depth[p] : p \in parents})

\* The bound add_node compares the depth with (mod.rs:26): ceil(log2) of
\* nodes.len(), read before the insertion of line 30.
depth_bound == CeilLog2(len)

\* Mutant of accepts: the comparison is off by one.
accepts_off_by_one(d) == ~(d > depth_bound + 1)

\* mod.rs:26: the candidate passes the check.
accepts(d) == ~(d > depth_bound)

\* Mutant of dag_add_node: the node is stored under nodes.len() instead of
\* the fresh id.
dag_add_node_len_key(data, parents) ==
    LET id == len
        d == compute_depth(parents)
    IN /\ next_id' = next_id + 1
       /\ IF accepts(d)
          THEN /\ nodes' = (id :> [data |-> data, edges |-> <<>>]) @@ nodes
               /\ depth' = (id :> d) @@ depth
               /\ max_depth' = IF d > max_depth THEN d ELSE max_depth
          ELSE UNCHANGED dagVars

\* Mutant of dag_add_node: line 31 takes the minimum instead of the maximum.
dag_add_node_min_depth(data, parents) ==
    LET id == NodeId_new
        d == compute_depth(parents)
    IN /\ next_id' = next_id + 1
       /\ IF accepts(d)
          THEN /\ nodes' = (id :> [data |-> data, edges |-> <<>>]) @@ nodes
               /\ depth' = (id :> d) @@ depth
               /\ max_depth' = IF d < max_depth THEN d ELSE max_depth
          ELSE UNCHANGED dagVars

\* Mutant of dag_add_node: max_depth is updated before the depth check.
dag_add_node_early_update(data, parents) ==
    LET id == NodeId_new
        d == compute_depth(parents)
    IN /\ next_id' = next_id + 1
       /\ max_depth' = IF d > max_depth THEN d ELSE max_depth
       /\ IF accepts(d)
          THEN /\ nodes' = (id :> [data |-> data, edges |-> <<>>]) @@ nodes
               /\ depth' = (id :> d) @@ depth
          ELSE UNCHANGED <<nodes, depth>>

\* The effect of self.dag.add_node(data) on the DAG, lines 22-32.
dag_add_node(data, parents) ==
    LET id == NodeId_new
        d == compute_depth(parents)
    IN /\ next_id' = next_id + 1
       /\ IF accepts(d)
          THEN /\ nodes' = (id :> [data |-> data, edges |-> <<>>]) @@ nodes
               /\ depth' = (id :> d) @@ depth
               /\ max_depth' = IF d > max_depth THEN d ELSE max_depth
          ELSE UNCHANGED dagVars

\* What add_node returns for this candidate.
add_node_result(parents) ==
    IF accepts(compute_depth(parents))
    THEN [op |-> "add_node", val |-> "Ok", id |-> NodeId_new]
    ELSE [op |-> "add_node", val |-> "ExceedsLogN", id |-> None]

\* DAG::add_node(&mut self, data) (mod.rs:21-33).  &mut self: no traversal
\* is in progress.
add_node(data, parents) ==
    /\ exclusive
    /\ UNCHANGED impl
    /\ next_id < MaxIds
    /\ dag_add_node(data, parents)
    /\ result' = add_node_result(parents)
    /\ no_traversal
    /\ UNCHANGED hdis

\* add_edge: the depths after appending parent -> child, for the child and
\* its descendants: max(existing depth, parent's depth + 1), transitively.
NewDepths(parent, child) ==
    LET affected == {child} \cup Descendants(child)
        nd[x \in Ids] ==
            IF x \notin affected THEN depth[x]
            ELSE LET viaOld == {nd[p] + 1 : p \in Parents(x)}
                     via == IF x = child
                            THEN viaOld \cup {depth[parent] + 1}
                            ELSE viaOld
                 IN Max(via \cup {depth[x]})
    IN nd

\* Mutant of add_edge: the ancestor check is missing.
add_edge_no_cycle_check(parent, child) ==
    /\ exclusive
    /\ UNCHANGED impl
    /\ EdgeCount < MaxEdges
    /\ parent \in Ids /\ child \in Ids
    /\ child \notin Children(parent)
    /\ LET nd == NewDepths(parent, child)
       IN IF \E x \in Ids : nd[x] > CeilLog2(len)
          THEN /\ result' = [op |-> "add_edge", val |-> "ExceedsLogN", id |-> None]
               /\ UNCHANGED dagVars
          ELSE /\ nodes' = [nodes EXCEPT ![parent].edges = Append(@, child)]
               /\ depth' = nd
               /\ max_depth' = Max({max_depth} \cup {nd[x] : x \in Ids})
               /\ result' = [op |-> "add_edge", val |-> "Ok", id |-> None]
    /\ no_traversal
    /\ UNCHANGED <<next_id, hdis>>

\* add_edge(parent, child) (spec 4.1): CycleViolation when child is an
\* ancestor of parent; DepthViolation when the child or a descendant would
\* exceed ceil(log2(n)); otherwise the edge is appended and the depths are
\* updated.  A failure leaves the graph as it was.
add_edge(parent, child) ==
    /\ exclusive
    /\ UNCHANGED impl
    /\ EdgeCount < MaxEdges
    /\ parent \in Ids /\ child \in Ids
    /\ child \notin Children(parent)
    /\ IF parent = child \/ parent \in Descendants(child)
       THEN /\ result' = [op |-> "add_edge", val |-> "CycleViolation", id |-> None]
            /\ UNCHANGED dagVars
       ELSE LET nd == NewDepths(parent, child)
            IN IF \E x \in Ids : nd[x] > CeilLog2(len)
               THEN /\ result' = [op |-> "add_edge", val |-> "ExceedsLogN", id |-> None]
                    /\ UNCHANGED dagVars
               ELSE /\ nodes' = [nodes EXCEPT ![parent].edges = Append(@, child)]
                    /\ depth' = nd
                    /\ max_depth' = Max({max_depth} \cup {nd[x] : x \in Ids})
                    /\ result' = [op |-> "add_edge", val |-> "Ok", id |-> None]
    /\ no_traversal
    /\ UNCHANGED <<next_id, hdis>>

\* -------------------------------------------------------------- traverse
\* The nodes with no incoming edge.
RootSet == {x \in Ids : Parents(x) = {}}

\* The ids in S as a descending sequence.
RECURSIVE Descending(_)
Descending(S) ==
    IF S = {} THEN <<>>
    ELSE LET m == CHOOSE x \in S : \A y \in S : y <= x
         IN <<m>> \o Descending(S \ {m})

\* Mutant of find_roots: the roots come in another order.
find_roots_reversed == Descending(RootSet)

\* find_roots() (mod.rs:45): the nodes with no incoming edge, in ascending
\* id order (spec 4.1).
find_roots == Ascending(RootSet)

\* Mutant of traverse_begin: the stack limit is at least one.
traverse_begin_limit_at_least_one ==
    /\ pc = "idle"
    /\ UNCHANGED <<rd2, impl>>
    /\ max_stack_size' = Max({1, CeilLog2(len)})
    /\ stack' = <<>>
    /\ roots' = find_roots
    /\ visited' = <<>>
    /\ stage' = [x \in Ids |-> "Pending"]
    /\ pc' = "loop"
    /\ result' = [op |-> "traverse", val |-> "Running", id |-> None]
    /\ UNCHANGED <<dagVars, next_id, hdis>>

\* traverse, lines 41-45: the stack limit, the empty stack, the roots.
traverse_begin ==
    /\ pc = "idle"
    /\ UNCHANGED <<rd2, impl>>
    /\ max_stack_size' = CeilLog2(len)
    /\ stack' = <<>>
    /\ roots' = find_roots
    /\ visited' = <<>>
    /\ stage' = [x \in Ids |-> "Pending"]
    /\ pc' = "loop"
    /\ result' = [op |-> "traverse", val |-> "Running", id |-> None]
    /\ UNCHANGED <<dagVars, next_id, hdis>>

\* dfs_bounded, lines 62-64, and the ? of line 46: the guard fails and
\* traverse returns the error at once.
dfs_overflow ==
    /\ pc = "loop"
    /\ UNCHANGED <<rd2, impl>>
    /\ roots # <<>>
    /\ Len(stack) >= max_stack_size
    /\ pc' = "idle"
    /\ result' = [op |-> "traverse", val |-> "StackOverflow", id |-> Head(roots)]
    /\ UNCHANGED <<dagVars, next_id, hdis, roots, stack, max_stack_size,
                   visited, stage>>

\* Mutant of dfs_push: the guard compares with > instead of >=.
dfs_push_late_guard ==
    /\ pc = "loop"
    /\ UNCHANGED <<rd2, impl>>
    /\ roots # <<>>
    /\ ~(Len(stack) > max_stack_size)
    /\ stack' = Append(stack, Head(roots))
    /\ pc' = "process"
    /\ UNCHANGED <<dagVars, next_id, hdis, result, roots, max_stack_size,
                   visited, stage>>

\* dfs_bounded, lines 62-66: the guard passes and the node id is pushed.
dfs_push ==
    /\ pc = "loop"
    /\ UNCHANGED <<rd2, impl>>
    /\ roots # <<>>
    /\ ~(Len(stack) >= max_stack_size)
    /\ stack' = Append(stack, Head(roots))
    /\ pc' = "process"
    /\ UNCHANGED <<dagVars, next_id, hdis, result, roots, max_stack_size,
                   visited, stage>>

\* The node on top of the stack.
current == stack[Len(stack)]

\* dfs_bounded, line 67 ("Process node..."): the visitor is applied to the
\* node on top of the stack.  An arbitrary visitor FnMut(&T): only the
\* invocation is recorded.
visit ==
    /\ pc = "process"
    /\ UNCHANGED <<rd2, impl>>
    /\ visited' = Append(visited, current)
    /\ pc' = "pop"
    /\ UNCHANGED <<dagVars, next_id, hdis, result, roots, stack,
                   max_stack_size, stage>>

\* Mutant of dfs_pop: the pop of line 68 is missing.
dfs_pop_missing ==
    /\ pc = "pop"
    /\ UNCHANGED <<rd2, impl>>
    /\ roots' = Tail(roots)
    /\ pc' = "loop"
    /\ UNCHANGED <<dagVars, next_id, hdis, result, stack, max_stack_size,
                   visited, stage>>

\* dfs_bounded, lines 68-69: pop and return Ok; the loop of line 45 moves
\* to the next root.  The node's edges are not followed.
dfs_pop ==
    /\ pc = "pop"
    /\ UNCHANGED <<rd2, impl>>
    /\ stack' = SubSeq(stack, 1, Len(stack) - 1)
    /\ roots' = Tail(roots)
    /\ pc' = "loop"
    /\ UNCHANGED <<dagVars, next_id, hdis, result, max_stack_size,
                   visited, stage>>

\* traverse, line 49: every root was processed.
traverse_return ==
    /\ pc = "loop"
    /\ UNCHANGED <<rd2, impl>>
    /\ roots = <<>>
    /\ pc' = "idle"
    /\ result' = [op |-> "traverse", val |-> "Ok", id |-> None]
    /\ UNCHANGED <<dagVars, next_id, hdis, roots, stack, max_stack_size,
                   visited, stage>>

\* ------------------------------------------------------------------ Spec
Next ==
    \/ \E data \in Payloads, parents \in SUBSET Ids : add_node(data, parents)
    \/ \E parent \in Ids, child \in Ids : add_edge(parent, child)
    \/ traverse_begin
    \/ dfs_overflow
    \/ dfs_push
    \/ visit
    \/ dfs_pop
    \/ traverse_return

Spec == Init /\ [][Next]_vars

\* ------------------------------------------------------- HDISIntegration
\* Mutant of register_archerion: the ? of line 32 is missing, so a refusal
\* of enable_self_repair is not returned.
register_archerion_repair_unchecked(archerion, parents, rc_ok, sr_ok) ==
    LET node_id == NodeId_new
        added == accepts(compute_depth(parents))
    IN /\ exclusive
       /\ UNCHANGED impl
       /\ next_id < MaxRegs
       /\ dag_add_node(archerion, parents)
       /\ no_traversal
       /\ IF ~added
          THEN /\ result' = [op |-> "register_archerion",
                             val |-> "ExceedsLogN", id |-> None]
               /\ UNCHANGED hdis
          ELSE IF ~rc_ok
          THEN /\ result' = [op |-> "register_archerion",
                             val |-> "RegisterComponentFailed", id |-> node_id]
               /\ UNCHANGED hdis
          ELSE /\ result' = [op |-> "register_archerion",
                             val |-> "Ok", id |-> node_id]
               /\ hdis' = [components |-> hdis.components \cup {node_id},
                           self_repair |-> IF sr_ok
                                           THEN hdis.self_repair \cup {node_id}
                                           ELSE hdis.self_repair]

\* register_archerion (hdis:21-35).  add_node's DepthViolation leaves through
\* the ? of line 26; a refusal of register_component (line 29) or of
\* enable_self_repair (line 32) leaves through its ?, after add_node has
\* inserted the node.  rc_ok and sr_ok are the monitor's answers.  The val
\* of the result names the error the TopologyError was made from; its id is
\* node_id when line 26 assigned it.
register_archerion(archerion, parents, rc_ok, sr_ok) ==
    LET node_id == NodeId_new
        added == accepts(compute_depth(parents))
    IN /\ exclusive
       /\ UNCHANGED impl
       /\ next_id < MaxRegs
       /\ dag_add_node(archerion, parents)
       /\ no_traversal
       /\ IF ~added
          THEN /\ result' = [op |-> "register_archerion",
                             val |-> "ExceedsLogN", id |-> None]
               /\ UNCHANGED hdis
          ELSE IF ~rc_ok
          THEN /\ result' = [op |-> "register_archerion",
                             val |-> "RegisterComponentFailed", id |-> node_id]
               /\ UNCHANGED hdis
          ELSE IF ~sr_ok
          THEN /\ result' = [op |-> "register_archerion",
                             val |-> "EnableSelfRepairFailed", id |-> node_id]
               /\ hdis' = [hdis EXCEPT !.components = @ \cup {node_id}]
          ELSE /\ result' = [op |-> "register_archerion",
                             val |-> "Ok", id |-> node_id]
               /\ hdis' = [components |-> hdis.components \cup {node_id},
                           self_repair |-> hdis.self_repair \cup {node_id}]

\* The visitor of execute_topology (hdis:39-45) applied at line 67 of
\* dfs_bounded.  traverse takes F: FnMut(&T) and dfs_bounded reads no value
\* back from it, so what the closure returns reaches neither the traversal
\* nor the result of execute_topology.
\* Mutant of observe: the ? is missing, so consume runs after a failure.
observe_unchecked(ok) ==
    /\ pc = "process"
    /\ UNCHANGED <<rd2, impl>>
    /\ visited' = Append(visited, stack[Len(stack)])
    /\ stage' = [stage EXCEPT ![stack[Len(stack)]] =
                    IF ok THEN "Observed" ELSE "FailedObserve"]
    /\ pc' = "consume"
    /\ UNCHANGED <<dagVars, next_id, hdis, result, roots, stack,
                   max_stack_size>>

\* hdis:41, archerion.observe(..)?: on failure the closure returns.
observe(ok) ==
    /\ pc = "process"
    /\ UNCHANGED <<rd2, impl>>
    /\ visited' = Append(visited, current)
    /\ stage' = [stage EXCEPT ![current] =
                    IF ok THEN "Observed" ELSE "FailedObserve"]
    /\ pc' = IF ok THEN "consume" ELSE "pop"
    /\ UNCHANGED <<dagVars, next_id, hdis, result, roots, stack,
                   max_stack_size>>

\* hdis:42, archerion.consume(..)?.
consume(ok) ==
    /\ pc = "consume"
    /\ UNCHANGED <<rd2, impl>>
    /\ stage' = [stage EXCEPT ![current] =
                    IF ok THEN "Consumed" ELSE "FailedConsume"]
    /\ pc' = IF ok THEN "watch" ELSE "pop"
    /\ UNCHANGED <<dagVars, next_id, hdis, result, roots, stack,
                   max_stack_size, visited>>

\* hdis:43-44, archerion.watch(..)? and Ok(()).
watch(ok) ==
    /\ pc = "watch"
    /\ UNCHANGED <<rd2, impl>>
    /\ stage' = [stage EXCEPT ![current] =
                    IF ok THEN "Watched" ELSE "FailedWatch"]
    /\ pc' = "pop"
    /\ UNCHANGED <<dagVars, next_id, hdis, result, roots, stack,
                   max_stack_size, visited>>

NextHDIS ==
    \/ \E archerion \in Payloads, parents \in SUBSET Ids, rc_ok \in BOOLEAN,
          sr_ok \in BOOLEAN : register_archerion(archerion, parents, rc_ok, sr_ok)
    \/ traverse_begin
    \/ dfs_overflow
    \/ dfs_push
    \/ \E ok \in BOOLEAN : observe(ok)
    \/ \E ok \in BOOLEAN : consume(ok)
    \/ \E ok \in BOOLEAN : watch(ok)
    \/ dfs_pop
    \/ traverse_return

SpecHDIS == Init /\ [][NextHDIS]_vars

\* What the value execute_topology returns says about per-node pipeline
\* failures: Result<(), DegradationError> (hdis:38) carries no per-node
\* report, and traverse hands back Ok(()) or the AuxSpaceViolation.
reported_failures == {}

\* ------------------------------------------- a second, concurrent reader
\* traverse takes &self (mod.rs:36), so a second call may run while the
\* first is in progress.  The steps are those of traverse_begin ..
\* traverse_return, on the second call's own locals.
traverse2_begin ==
    /\ rd2.pc = "idle"
    /\ rd2' = [pc |-> "loop", roots |-> find_roots, stack |-> <<>>,
               max_stack_size |-> CeilLog2(len), visited |-> <<>>,
               val |-> "Running"]
    /\ UNCHANGED <<dagVars, next_id, result, hdis, travVars, impl>>

\* dfs_bounded, lines 62-64, and the ? of line 46.
dfs2_overflow ==
    /\ rd2.pc = "loop"
    /\ rd2.roots # <<>>
    /\ Len(rd2.stack) >= rd2.max_stack_size
    /\ rd2' = [rd2 EXCEPT !.pc = "idle", !.val = "StackOverflow"]
    /\ UNCHANGED <<dagVars, next_id, result, hdis, travVars, impl>>

\* dfs_bounded, lines 62-66.
dfs2_push ==
    /\ rd2.pc = "loop"
    /\ rd2.roots # <<>>
    /\ ~(Len(rd2.stack) >= rd2.max_stack_size)
    /\ rd2' = [rd2 EXCEPT !.stack = Append(@, Head(rd2.roots)),
                          !.pc = "process"]
    /\ UNCHANGED <<dagVars, next_id, result, hdis, travVars, impl>>

\* dfs_bounded, line 67.
visit2 ==
    /\ rd2.pc = "process"
    /\ rd2' = [rd2 EXCEPT !.visited = Append(@, rd2.stack[Len(rd2.stack)]),
                          !.pc = "pop"]
    /\ UNCHANGED <<dagVars, next_id, result, hdis, travVars, impl>>

\* dfs_bounded, lines 68-69.
dfs2_pop ==
    /\ rd2.pc = "pop"
    /\ rd2' = [rd2 EXCEPT !.stack = SubSeq(@, 1, Len(@) - 1),
                          !.roots = Tail(@),
                          !.pc = "loop"]
    /\ UNCHANGED <<dagVars, next_id, result, hdis, travVars, impl>>

\* traverse, line 49.
traverse2_return ==
    /\ rd2.pc = "loop"
    /\ rd2.roots = <<>>
    /\ rd2' = [rd2 EXCEPT !.pc = "idle", !.val = "Ok"]
    /\ UNCHANGED <<dagVars, next_id, result, hdis, travVars, impl>>

\* One writer (add_node) and two readers (traverse) of the same DAG.
NextRW ==
    \/ \E data \in Payloads, parents \in SUBSET Ids : add_node(data, parents)
    \/ traverse_begin
    \/ dfs_overflow
    \/ dfs_push
    \/ visit
    \/ dfs_pop
    \/ traverse_return
    \/ traverse2_begin
    \/ dfs2_overflow
    \/ dfs2_push
    \/ visit2
    \/ dfs2_pop
    \/ traverse2_return

SpecRW == Init /\ [][NextRW]_vars

\* ---------------------------------------- design protocol, implementation
\* Mutant of validate_complexity: expected and actual are exchanged.
validate_complexity_swapped(complexity) ==
    IF complexity = "LogN" THEN ValidateOk
    ELSE [val |-> "ComplexityViolation::Expected",
          expected |-> complexity, actual |-> "LogN"]

\* DesignSolution::validate_complexity (design-protocol:34-42), for a
\* solution whose complexity() is the argument.
validate_complexity(complexity) ==
    IF complexity = "LogN" THEN ValidateOk
    ELSE [val |-> "ComplexityViolation::Expected",
          expected |-> "LogN", actual |-> complexity]

\* A call of validate_complexity on a solution of the given class.
call_validate_complexity(complexity) ==
    /\ impl.pc = "idle"
    /\ impl' = [impl EXCEPT !.op = "validate_complexity",
                            !.complexity = complexity,
                            !.ran = <<>>,
                            !.ret = validate_complexity(complexity)]
    /\ UNCHANGED <<dagVars, next_id, result, hdis, travVars, rd2>>

\* validate_design_layer is entered (implementation-layer:15) on an
\* Implementation whose solution has the given class, whose pheno tokens
\* pass validate_tokens or not, and whose verify_hdis succeeds or not.
\* ret keeps the value of the previous call until this one returns.
validate_design_layer_begin(complexity, tokens_ok, hdis_ok) ==
    /\ impl.pc = "idle"
    /\ impl' = [op |-> "validate_design_layer", pc |-> "complexity",
                complexity |-> complexity, tokens_ok |-> tokens_ok,
                hdis_ok |-> hdis_ok, ran |-> <<>>, ret |-> impl.ret]
    /\ UNCHANGED <<dagVars, next_id, result, hdis, travVars, rd2>>

\* Mutant of check_complexity: the ? of line 17 is missing.
check_complexity_unchecked ==
    /\ impl.pc = "complexity"
    /\ impl' = [impl EXCEPT !.ran = Append(@, "complexity"),
                            !.pc = "tokens"]
    /\ UNCHANGED <<dagVars, next_id, result, hdis, travVars, rd2>>

\* implementation-layer:17, self.solution().validate_complexity()?.
check_complexity ==
    /\ impl.pc = "complexity"
    /\ LET r == validate_complexity(impl.complexity)
       IN impl' = [impl EXCEPT !.ran = Append(@, "complexity"),
                               !.pc = IF r.val = "Ok" THEN "tokens" ELSE "idle",
                               !.ret = IF r.val = "Ok" THEN @ ELSE r]
    /\ UNCHANGED <<dagVars, next_id, result, hdis, travVars, rd2>>

\* implementation-layer:20-21, load_pheno_tests and validate_tokens(..)?.
check_tokens ==
    /\ impl.pc = "tokens"
    /\ impl' = [impl EXCEPT !.ran = Append(@, "tokens"),
                            !.pc = IF impl.tokens_ok THEN "hdis" ELSE "idle",
                            !.ret = IF impl.tokens_ok THEN @
                                    ELSE [val |-> "TokenValidationError",
                                          expected |-> "None",
                                          actual |-> "None"]]
    /\ UNCHANGED <<dagVars, next_id, result, hdis, travVars, rd2>>

\* implementation-layer:24-26, self.verify_hdis()? and Ok(()).
check_hdis ==
    /\ impl.pc = "hdis"
    /\ impl' = [impl EXCEPT !.ran = Append(@, "hdis"),
                            !.pc = "idle",
                            !.ret = IF impl.hdis_ok THEN ValidateOk
                                    ELSE [val |-> "TopologyError",
                                          expected |-> "None",
                                          actual |-> "None"]]
    /\ UNCHANGED <<dagVars, next_id, result, hdis, travVars, rd2>>

NextDesign ==
    \/ \E complexity \in Complexities : call_validate_complexity(complexity)
    \/ \E complexity \in Complexities, tokens_ok \in BOOLEAN,
          hdis_ok \in BOOLEAN :
          validate_design_layer_begin(complexity, tokens_ok, hdis_ok)
    \/ check_complexity
    \/ check_tokens
    \/ check_hdis

SpecDesign == Init /\ [][NextDesign]_vars

\* =============================================================== claims
FailedStages == {"FailedObserve", "FailedConsume", "FailedWatch"}

TraverseReturnedOk ==
    pc = "idle" /\ result.op = "traverse" /\ result.val = "Ok"

TraverseOverflowed == result.op = "traverse" /\ result.val = "StackOverflow"

\* C1 (depth invariant): in every state reached by add_node and add_edge
\* calls, every node held by the graph has depth <= ceil(log2(n)), n being
\* the number of nodes held.
C1_DepthInvariant == \A x \in Ids : depth[x] <= CeilLog2(len)

\* An accepted add_node whose candidate, or an earlier one, sits at depth 2.
C1_Witness ==
    /\ result.op = "add_node" /\ result.val = "Ok"
    /\ \E x \in Ids : depth[x] = 2

\* C2 (acceptance rule): add_node accepts the candidate exactly when its
\* depth is <= ceil(log2(n)), n being the node count after the insertion
\* (count before the call plus one), and rejects it otherwise.
C2_AcceptsByResultingCount ==
    [][\A data \in Payloads, parents \in SUBSET Ids :
          add_node(data, parents) =>
              (result'.val = "Ok" <=>
                   compute_depth(parents) <= CeilLog2(len + 1))]_vars

\* C3 (atomicity): a step that ends add_node or add_edge with an error
\* leaves the node set, every edge list, every depth and max_depth as they
\* were.
C3_Atomicity ==
    [][(result'.op \in {"add_node", "add_edge"} /\ result'.val # "Ok")
          => UNCHANGED dagVars]_vars

\* add_node has rejected a candidate of a graph that holds nodes.
C3_Witness ==
    /\ result.op = "add_node" /\ result.val = "ExceedsLogN"
    /\ len >= 2

\* C4 (acyclicity): in every state reached through add_node and add_edge
\* no node is reachable from itself along one or more edges.
C4_Acyclic == \A x \in Ids : x \notin Descendants(x)

\* add_edge has refused an edge that would close a cycle of length >= 2.
C4_Witness ==
    /\ result.op = "add_edge" /\ result.val = "CycleViolation"
    /\ EdgeCount >= 2

\* C5 (topological traversal): when traverse has returned Ok, the visitor
\* was invoked exactly once on every node of the graph, and on a node only
\* after all of that node's predecessors.
C5_TraverseVisitsAllInOrder ==
    TraverseReturnedOk =>
        /\ Len(visited) = len
        /\ Range(visited) = Ids
        /\ \A i \in 1..Len(visited) :
               Parents(visited[i]) \subseteq {visited[j] : j \in 1..(i-1)}

\* C6 (aux-space bound): the pending-visit stack never holds more than
\* ceil(log2(n)) entries; when the guard refuses a push, traverse has
\* returned StackOverflow at once, the refused node and the roots after it
\* are not visited, and the visited nodes are a prefix of the root order.
C6_AuxSpaceBound ==
    /\ Len(stack) <= CeilLog2(len)
    /\ TraverseOverflowed =>
          /\ pc = "idle"
          /\ result.id \notin Range(visited)
          /\ Len(visited) < Cardinality(RootSet)
          /\ visited = SubSeq(Ascending(RootSet), 1, Len(visited))

\* traverse has returned StackOverflow on a graph that holds a node.
C6_Witness == TraverseOverflowed /\ len >= 1 /\ result.id \in Ids

\* C7 (traversal order determinism): the visitor meets the roots in
\* ascending id order, so the visit order is a function of the graph: at
\* every point it is the ascending sequence of the roots, cut at the number
\* of visits made.
C7_DeterministicOrder ==
    /\ \A i, j \in 1..Len(visited) : i < j => visited[i] < visited[j]
    /\ Len(visited) <= Cardinality(RootSet)
    /\ visited = SubSeq(Ascending(RootSet), 1, Len(visited))

\* A traversal that returned Ok after visiting at least two roots.
C7_Witness == TraverseReturnedOk /\ Len(visited) >= 2

\* The pipeline moves of one node (spec 4.2).
StageMoves ==
    {<<"Pending", "Observed">>, <<"Pending", "FailedObserve">>,
     <<"Observed", "Consumed">>, <<"Observed", "FailedConsume">>,
     <<"Consumed", "Watched">>, <<"Consumed", "FailedWatch">>}

\* C8 (per-node pipeline ordering): during execute_topology every change
\* of a node's pipeline state is one of Pending -> Observed -> Consumed ->
\* Watched or a move from a non-terminal state to the Failed state of the
\* stage that ran; Failed and Watched are never left, and no stage runs
\* twice.
C8_PipelineOrder ==
    [][pc # "idle" =>
          \A x \in Ids :
              stage'[x] = stage[x] \/ <<stage[x], stage'[x]>> \in StageMoves]_vars

\* One node ran all three stages and another failed in Consume.
C8_Witness ==
    \E x, y \in DOMAIN stage :
        stage[x] = "Watched" /\ stage[y] = "FailedConsume"

\* C9 (pipeline isolation and aggregation): when execute_topology has
\* returned without an AuxSpaceViolation, every node ran its own pipeline
\* to Watched or to a Failed state whatever happened to the other nodes,
\* and the failures are reported in the result.
C9_IsolatedAndAggregated ==
    TraverseReturnedOk =>
        /\ \A x \in Ids : stage[x] \in FailedStages \cup {"Watched"}
        /\ reported_failures = {x \in Ids : stage[x] \in FailedStages}

\* C10 (registration is all-or-nothing): when register_archerion returns
\* an error because the monitor refused register_component or
\* enable_self_repair, the node is not in the DAG.
C10_AllOrNothing ==
    (/\ result.op = "register_archerion"
     /\ result.val \in {"RegisterComponentFailed", "EnableSelfRepairFailed"})
        => result.id \notin Ids

C14_AddNodeFrame ==
    [][\A data \in Payloads, parents \in SUBSET Ids :
          (add_node(data, parents) /\ result'.val = "Ok") =>
              /\ result'.id \notin Ids
              /\ result'.id >= next_id
              /\ Cardinality(DOMAIN nodes') = len + 1
              /\ DOMAIN nodes' = Ids \cup {result'.id}
              /\ nodes'[result'.id] = [data |-> data, edges |-> <<>>]
              /\ \A x \in Ids : nodes'[x] = nodes[x]]_vars

\* add_node has succeeded on a graph that holds an edge and has a gap in
\* its ids (an earlier candidate was rejected).
C14_Witness ==
    /\ result.op = "add_node" /\ result.val = "Ok"
    /\ len < next_id
    /\ EdgeCount >= 1

\* The largest depth among the held nodes, 0 for an empty graph.
LargestDepth == Max({0} \cup {depth[x] : x \in Ids})

\* C15 (max_depth): max_depth is 0 for the new graph, always equals the
\* largest depth of an accepted node, never decreases, and is left alone
\* by a rejected add_node.
C15_MaxDepth ==
    /\ [](max_depth = LargestDepth)
    /\ [][/\ max_depth' >= max_depth
          /\ (result'.op = "add_node" /\ result'.val # "Ok")
                 => max_depth' = max_depth]_vars

\* add_node has rejected a candidate after max_depth had grown.
C15_Witness ==
    /\ result.op = "add_node" /\ result.val = "ExceedsLogN"
    /\ max_depth >= 1

\* traverse has returned.
TraverseReturned ==
    pc = "idle" /\ result.op = "traverse" /\ result.val # "Running"

\* C18 (small graphs): during a traversal the stack limit is the ceiling of
\* log2 of the node count; traverse of the empty graph returns Ok without a
\* visit; traverse of a one-node graph (limit 0) returns StackOverflow at
\* that node and does not visit it.
C18_SmallGraphs ==
    /\ (pc # "idle" /\ len = 0) => max_stack_size = 0
    /\ (pc # "idle" /\ len = 1) => max_stack_size = 0
    /\ (pc # "idle" /\ len = 2) => max_stack_size = 1
    /\ (pc # "idle" /\ len \in 3..4) => max_stack_size = 2
    /\ (TraverseReturned /\ len = 0) =>
          result.val = "Ok" /\ visited = <<>>
    /\ (TraverseReturned /\ len = 1) =>
          /\ result.val = "StackOverflow"
          /\ result.id \in Ids
          /\ visited = <<>>

\* traverse has returned from a one-node graph.
C18_Witness == TraverseReturned /\ len = 1

\* C19 (stack balance): the stack is empty whenever a root is about to be
\* processed and when traverse has returned, holds exactly the node being
\* processed in between, and never holds more than one entry.
C19_StackBalance ==
    /\ Len(stack) <= 1
    /\ pc \in {"loop", "idle"} => stack = <<>>
    /\ pc \notin {"loop", "idle"} => stack = <<Head(roots)>>

\* The second root is about to be processed: the first was pushed and popped.
C19_Witness == pc = "loop" /\ Len(visited) = 1 /\ roots # <<>>

ComplexityValidated == impl.op = "validate_complexity"

\* C16 (validate_complexity): the call returns Ok exactly for LogN, and for
\* every other class ComplexityViolation::Expected with expected LogN and
\* actual the declared class.
C16_ValidateComplexity ==
    ComplexityValidated =>
        /\ impl.ret.val = "Ok" <=> impl.complexity = "LogN"
        /\ impl.complexity # "LogN" =>
              /\ impl.ret.val = "ComplexityViolation::Expected"
              /\ impl.ret.expected = "LogN"
              /\ impl.ret.actual = impl.complexity

\* validate_complexity has refused a class other than LogN.
C16_Witness == ComplexityValidated /\ impl.complexity = "Quadratic"

\* validate_design_layer has returned.
DesignLayerValidated == impl.op = "validate_design_layer" /\ impl.pc = "idle"

\* C17 (validate_design_layer): the checks run in the order complexity,
\* tokens, hdis; the call returns at the first check that fails, with that
\* check's error and without running the later checks; it returns Ok only
\* when all three have run and passed.
C17_DesignLayerOrder ==
    /\ impl.op = "validate_design_layer" =>
          impl.ran = SubSeq(<<"complexity", "tokens", "hdis">>, 1, Len(impl.ran))
    /\ DesignLayerValidated =>
          /\ impl.ret.val = "Ok" <=>
                 (/\ impl.ran = <<"complexity", "tokens", "hdis">>
                  /\ impl.complexity = "LogN"
                  /\ impl.tokens_ok /\ impl.hdis_ok)
          /\ impl.complexity # "LogN" =>
                 /\ impl.ran = <<"complexity">>
                 /\ impl.ret.val = "ComplexityViolation::Expected"
          /\ (impl.complexity = "LogN" /\ ~impl.tokens_ok) =>
                 /\ impl.ran = <<"complexity", "tokens">>
                 /\ impl.ret.val = "TokenValidationError"
          /\ (impl.complexity = "LogN" /\ impl.tokens_ok /\ ~impl.hdis_ok) =>
                 /\ impl.ran = <<"complexity", "tokens", "hdis">>
                 /\ impl.ret.val = "TopologyError"

\* validate_design_layer has stopped at the token check of an Implementation
\* whose verify_hdis would have failed too.
C17_Witness ==
    /\ DesignLayerValidated
    /\ impl.complexity = "LogN" /\ ~impl.tokens_ok /\ ~impl.hdis_ok

====
